---- MODULE Spec2Model ----
(***************************************************************************)
(* WorkAI backend: the Smart Pricing Band engine.                          *)
(*                                                                         *)
(* Two revisions of the upload pipeline live in the repository:            *)
(*   - server.js (src/unnamed/part_001, third revision): buildSmartBand,   *)
(*     a deterministic band from price and description, whose notes an     *)
(*     OpenAI call may rewrite;                                            *)
(*   - routes/jobs.js: the mounted router, where the OpenAI reply supplies *)
(*     the band, followed by the fallback, the history tuning and the      *)
(*     stress-test shield.                                                 *)
(*                                                                         *)
(* Text is a sequence of one-character strings, so that trim, toLowerCase, *)
(* includes and the duration regular expressions are computed, not         *)
(* assumed.  Prices and the numbers of a reply are integers; a value that  *)
(* may be fractional (hours, an hourly rate, a relative width) is an exact *)
(* rational [n, d] with d > 0.  Math.round(x) is floor(x + 1/2).           *)
(***************************************************************************)
EXTENDS Integers, Sequences, FiniteSets, TLC

VARIABLES
    bandIn,      \* server.js: the argument of buildSmartBand
    baseJob,     \* server.js: what buildSmartBand returned (NoJob before the call)
    engineIn,    \* routes/jobs.js: a submission and the history loadJobs returns
    run,         \* routes/jobs.js: the locals of the latest run on engineIn
    prevRun,     \* routes/jobs.js: the locals of the run before it
    openai,      \* routes/jobs.js: whether the OpenAI client was built at start-up
    jobsFile,    \* data/jobs.json: the stored jobs, in order
    req,         \* routes/jobs.js: the upload each connection has in flight
    uploads,     \* the uploads received so far
    now,         \* Date.now(), one tick per job entry
    sent         \* the response sent last, with the locals of its handler

engineVars == <<bandIn, baseJob, engineIn, run, prevRun>>

routerVars == <<openai, jobsFile, req, uploads, now, sent>>

vars == <<bandIn, baseJob, engineIn, run, prevRun, openai, jobsFile, req, uploads, now, sent>>

(***************************************************************************)
(* Numbers                                                                 *)
(***************************************************************************)

Max(a, b) == IF a >= b THEN a ELSE b

Min(a, b) == IF a <= b THEN a ELSE b

\* Math.round(n / d), d > 0: the nearest integer, a half rounding up.
Round(n, d) == (2 * n + d) \div (2 * d)

\* A JavaScript number that may be NaN.
NaN == [nan |-> TRUE, v |-> 0]

Num(i) == [nan |-> FALSE, v |-> i]

\* !x for a number x: NaN and 0 are falsy.
Falsy(x) == x.nan \/ x.v = 0

(***************************************************************************)
(* Text                                                                    *)
(***************************************************************************)

Digits == <<"0", "1", "2", "3", "4", "5", "6", "7", "8", "9">>

UpperCase == <<"A", "B", "C", "D", "E", "F", "G", "H", "I", "J", "K", "L", "M",
               "N", "O", "P", "Q", "R", "S", "T", "U", "V", "W", "X", "Y", "Z">>

LowerCase == <<"a", "b", "c", "d", "e", "f", "g", "h", "i", "j", "k", "l", "m",
               "n", "o", "p", "q", "r", "s", "t", "u", "v", "w", "x", "y", "z">>

WhiteSpace == {" ", "\t", "\n"}

IsDigit(c) == \E i \in 1..10 : Digits[i] = c

DigitVal(c) == (CHOOSE i \in 1..10 : Digits[i] = c) - 1

\* \w of a regular expression.
IsWordChar(c) ==
    \/ IsDigit(c)
    \/ c = "_"
    \/ \E i \in 1..26 : LowerCase[i] = c \/ UpperCase[i] = c

\* String.prototype.toLowerCase
ToLowerCase(s) ==
    [i \in 1..Len(s) |->
        IF \E k \in 1..26 : UpperCase[k] = s[i]
        THEN LowerCase[CHOOSE k \in 1..26 : UpperCase[k] = s[i]]
        ELSE s[i]]

\* String.prototype.trim
Trim(s) ==
    LET keep == {i \in 1..Len(s) : s[i] \notin WhiteSpace}
    IN  IF keep = {} THEN <<>>
        ELSE SubSeq(s, CHOOSE i \in keep : \A j \in keep : i <= j,
                       CHOOSE i \in keep : \A j \in keep : i >= j)

\* String.prototype.includes
Includes(s, sub) ==
    \E i \in 1..(Len(s) - Len(sub) + 1) : SubSeq(s, i, i + Len(sub) - 1) = sub

\* s has sub at position i.
HasAt(s, i, sub) ==
    /\ i + Len(sub) - 1 <= Len(s)
    /\ SubSeq(s, i, i + Len(sub) - 1) = sub

\* The first position at or after i that holds no digit (Len(s)+1 at the end).
DigitRunEnd(s, i) ==
    LET stops == {j \in i..Len(s) : ~IsDigit(s[j])}
    IN  IF stops = {} THEN Len(s) + 1 ELSE CHOOSE j \in stops : \A k \in stops : j <= k

\* The first position at or after i that holds no white space.
SpaceRunEnd(s, i) ==
    LET stops == {j \in i..Len(s) : s[j] \notin WhiteSpace}
    IN  IF stops = {} THEN Len(s) + 1 ELSE CHOOSE j \in stops : \A k \in stops : j <= k

RECURSIVE DigitsValue(_)
\* The value of a run of decimal digits.
DigitsValue(ds) ==
    IF ds = <<>> THEN 0
    ELSE 10 * DigitsValue(SubSeq(ds, 1, Len(ds) - 1)) + DigitVal(ds[Len(ds)])

RECURSIVE Pow10(_)
Pow10(k) == IF k = 0 THEN 1 ELSE 10 * Pow10(k - 1)

\* Number(text) for the texts a form field holds here: an optionally signed
\* run of digits between optional white space is its value, the empty text
\* is 0, anything else is NaN.
Number(text) ==
    LET t    == Trim(text)
        body == IF t # <<>> /\ t[1] \in {"-", "+"} THEN SubSeq(t, 2, Len(t)) ELSE t
    IN  IF t = <<>> THEN Num(0)
        ELSE IF body # <<>> /\ \A i \in 1..Len(body) : IsDigit(body[i])
        THEN Num(IF t[1] = "-" THEN 0 - DigitsValue(body) ELSE DigitsValue(body))
        ELSE NaN

(***************************************************************************)
(* server.js (src/unnamed/part_001): text signals                          *)
(***************************************************************************)

\* (hr|hrs|hour|hours)
HourUnits == {<<"h", "r">>, <<"h", "r", "s">>, <<"h", "o", "u", "r">>, <<"h", "o", "u", "r", "s">>}

\* (min|mins|minute|minutes)
MinuteUnits == {<<"m", "i", "n">>, <<"m", "i", "n", "s">>, <<"m", "i", "n", "u", "t", "e">>, <<"m", "i", "n", "u", "t", "e", "s">>}

NoMatch == [matched |-> FALSE, n |-> 0, d |-> 1]

\* An attempt of /(\d+(\.\d+)?)\s*(unit)\b/ at position i of s.  The digit
\* runs are taken whole (a shorter run leaves a digit or a "." that nothing
\* after it matches); the number matched is group 1, as the rational n/d.
DurationAt(s, i, units) ==
    IF ~IsDigit(s[i]) THEN NoMatch
    ELSE
    LET j       == DigitRunEnd(s, i)
        hasFrac == j + 1 <= Len(s) /\ s[j] = "." /\ IsDigit(s[j + 1])
        k       == IF hasFrac THEN DigitRunEnd(s, j + 1) ELSE j
        fracLen == IF hasFrac THEN k - j - 1 ELSE 0
        whole   == DigitsValue(SubSeq(s, i, j - 1))
        frac    == IF hasFrac THEN DigitsValue(SubSeq(s, j + 1, k - 1)) ELSE 0
        m       == SpaceRunEnd(s, k)
        unitOk  == \E u \in units :
                      /\ HasAt(s, m, u)
                      /\ \/ m + Len(u) > Len(s)
                         \/ ~IsWordChar(s[m + Len(u)])
    IN  IF unitOk
        THEN [matched |-> TRUE, n |-> whole * Pow10(fracLen) + frac, d |-> Pow10(fracLen)]
        ELSE NoMatch

\* String.prototype.match without the g flag: the leftmost match.
Match(s, units) ==
    LET hits == {i \in 1..Len(s) : DurationAt(s, i, units).matched}
    IN  IF hits = {} THEN NoMatch
        ELSE DurationAt(s, CHOOSE i \in hits : \A j \in hits : i <= j, units)

\* null of getApproxHours: no duration known.
NoHours == [known |-> FALSE, n |-> 0, d |-> 1]

getApproxHours(desc) ==
    LET s        == ToLowerCase(desc)
        hrMatch  == Match(s, HourUnits)
        minMatch == Match(s, MinuteUnits)
    IN  IF hrMatch.matched
        THEN [known |-> TRUE, n |-> hrMatch.n, d |-> hrMatch.d]
        ELSE IF minMatch.matched /\ minMatch.n > 0
        THEN [known |-> TRUE, n |-> minMatch.n, d |-> 60 * minMatch.d]
        ELSE NoHours

TinyMarkers == {<<"1", " ", "m", "i", "n">>,
                <<"1", "-", "m", "i", "n">>,
                <<"o", "n", "e", " ", "m", "i", "n", "u", "t", "e">>,
                <<"5", " ", "m", "i", "n">>,
                <<"5", "-", "m", "i", "n">>,
                <<"f", "i", "v", "e", " ", "m", "i", "n", "u", "t", "e", "s">>,
                <<"t", "i", "n", "y">>,
                <<"q", "u", "i", "c", "k", " ", "t", "o", "u", "c", "h">>,
                <<"q", "u", "i", "c", "k", " ", "s", "t", "o", "p">>,
                <<"1", " ", "h", "r">>,
                <<"1", "h", "r">>}

looksLikeTinyJob(desc) ==
    LET s == ToLowerCase(desc)
    IN  \E marker \in TinyMarkers : Includes(s, marker)

(***************************************************************************)
(* server.js (src/unnamed/part_001): buildSmartBand                        *)
(***************************************************************************)

\* The note texts, their typographic apostrophes and dashes written in ASCII.
NoteNoPrice == "No price provided. Use real jobs with real numbers to get a useful band."

NoteWorkableLane == "You're in a workable lane. If your communication and finish are strong, you can test the upper side of this band."

NoteCeiling == "This looks like a very small scope at a high rate. You're already at the ceiling; only hold this if your speed, reliability, and presentation clearly back it up. No upsell recommended."

NoteHourly == "This implied hourly rate is extremely high for most markets. Treat this as a special-case or adjust toward the lower side of this band if you want to maintain trust."

NoteLargeTicket == "For higher-ticket work, stay inside this band unless you're clearly offering premium design, warranty, or speed."

\* hourly = price / hours when hours is known and positive, else null.
NoRate == [known |-> FALSE, n |-> 0, d |-> 1]

ImpliedHourly(price, hours) ==
    IF hours.known /\ hours.n > 0
    THEN [known |-> TRUE, n |-> price * hours.d, d |-> hours.n]
    ELSE NoRate

\* A variant of the hourly test with the bar at 10000 an hour; the hourly rule
\* (C5) tells the two apart.
HourlyExtremeLax(hourly) == hourly.known /\ hourly.n > 10000 * hourly.d

\* hourly && hourly > 1000
HourlyExtreme(hourly) == hourly.known /\ hourly.n > 1000 * hourly.d

\* Case 1's trigger: (looksLikeTinyJob(desc) || (hours && hours <= 0.25)) && price >= 400
TinyTrigger(desc, hours, price) ==
    /\ \/ looksLikeTinyJob(desc)
       \/ hours.known /\ hours.n > 0 /\ 4 * hours.n <= hours.d
    /\ price >= 400

\* Case 3's trigger: price >= 2000 && (!hourly || hourly <= 1000)
LargeTicket(price, hourly) == price >= 2000 /\ ~HourlyExtreme(hourly)

\* Base: +-25% around their number, clamped to [0.5, 1.6] of it; upsell 15.
BaseBand(price) ==
    [aiLow |-> Max(Round(price * 75, 100), Round(price * 5, 10)),
     aiHigh |-> Min(Round(price * 125, 100), Round(price * 16, 10)),
     upsellPotential |-> 15,
     notes |-> NoteWorkableLane]

\* A variant of Case 1 with the high edge of the earlier revision of
\* server.js, round(price * 1.05); the tiny-job ceiling (C4) tells the two
\* apart.
Case1WideHigh(band, price, desc, hours) ==
    IF TinyTrigger(desc, hours, price)
    THEN [aiLow |-> Round(price * 8, 10),
          aiHigh |-> Round(price * 105, 100),
          upsellPotential |-> 0,
          notes |-> NoteCeiling]
    ELSE band

\* Case 1: tiny / very short job with crazy price
Case1(band, price, desc, hours) ==
    IF TinyTrigger(desc, hours, price)
    THEN [aiLow |-> Round(price * 8, 10),
          aiHigh |-> Round(price * 10, 10),
          upsellPotential |-> 0,
          notes |-> NoteCeiling]
    ELSE band

\* Case 2: explicit hourly insanity
Case2(band, price, hourly) ==
    IF HourlyExtreme(hourly)
    THEN [aiLow |-> Round(price * 6, 10),
          aiHigh |-> Max(Round(price * 9, 10), Round(price * 6, 10)),
          upsellPotential |-> 0,
          notes |-> NoteHourly]
    ELSE band

\* A variant of Case 3 that attaches its note whatever note is set; the
\* large-ticket rule (C14) tells the two apart.
Case3AnyNote(band, price, hourly) ==
    IF LargeTicket(price, hourly)
    THEN [band EXCEPT !.upsellPotential = 0, !.notes = NoteLargeTicket]
    ELSE band

\* Case 3: generic large ticket: no auto-upsell; the note only when it is
\* still the base note (notes.startsWith("You're in a workable lane")).
Case3(band, price, hourly) ==
    IF LargeTicket(price, hourly)
    THEN [band EXCEPT !.upsellPotential = 0,
                      !.notes = IF @ = NoteWorkableLane THEN NoteLargeTicket ELSE @]
    ELSE band

\* Global caps
GlobalCaps(band) == [band EXCEPT !.upsellPotential = Max(0, Min(40, @))]

\* The rules in the order the code applies them.
Rules(price, desc, hours, hourly) ==
    GlobalCaps(Case3(Case2(Case1(BaseBand(price), price, desc, hours), price, hourly),
                     price, hourly))

\* The body of buildSmartBand once price, desc, scope and hours are known.
SmartBand(price, desc, scope, hours) ==
    IF price <= 0
    THEN [price |-> 0, scopeType |-> scope, description |-> desc,
          aiLow |-> 0, aiHigh |-> 0, upsellPotential |-> 0, notes |-> NoteNoPrice]
    ELSE [price |-> price, scopeType |-> scope, description |-> desc,
          hourly |-> ImpliedHourly(price, hours)]
         @@ Rules(price, desc, hours, ImpliedHourly(price, hours))

\* Number(priceRaw) || 0
PriceOf(num) == IF Falsy(num) THEN 0 ELSE num.v

WithHours(price, desc, scope) == SmartBand(price, desc, scope, getApproxHours(desc))

buildSmartBand(priceRaw, description, scopeType) ==
    WithHours(PriceOf(Number(priceRaw)), Trim(description),
              IF scopeType = "" THEN "snapshot" ELSE scopeType)

(***************************************************************************)
(* Inputs of buildSmartBand: form fields as the upload supplies them.  An   *)
(* absent field and an empty one are the same text <<>> (both are falsy,    *)
(* and Number of either gives a falsy price).                               *)
(***************************************************************************)

\* "1 min paint touch up"
DescOneMinTouchUp == <<"1", " ", "m", "i", "n", " ", "p", "a", "i", "n", "t", " ", "t", "o", "u", "c", "h", " ", "u", "p">>

\* "1 hour detail"
DescOneHourDetail == <<"1", " ", "h", "o", "u", "r", " ", "d", "e", "t", "a", "i", "l">>

\* "  Tiny paint touch up "
DescTinyTouchUp == <<" ", " ", "T", "i", "n", "y", " ", "p", "a", "i", "n", "t", " ", "t", "o", "u", "c", "h", " ", "u", "p", " ">>

\* "mow lawn"
DescMowLawn == <<"m", "o", "w", " ", "l", "a", "w", "n">>

\* "15 min trim"
DescFifteenMin == <<"1", "5", " ", "m", "i", "n", " ", "t", "r", "i", "m">>

\* "0 hr job"
DescZeroHr == <<"0", " ", "h", "r", " ", "j", "o", "b">>

\* "2 hours deck"
DescTwoHours == <<"2", " ", "h", "o", "u", "r", "s", " ", "d", "e", "c", "k">>

\* "1.5hrs wash"
DescHalfHrs == <<"1", ".", "5", "h", "r", "s", " ", "w", "a", "s", "h">>

\* "12 minutes fix"
DescTwelveMinutes == <<"1", "2", " ", "m", "i", "n", "u", "t", "e", "s", " ", "f", "i", "x">>

\* "1 HR Rush"
DescOneHrRush == <<"1", " ", "H", "R", " ", "R", "u", "s", "h">>

\* "2 hourly visits"
DescHourly == <<"2", " ", "h", "o", "u", "r", "l", "y", " ", "v", "i", "s", "i", "t", "s">>

\* "10 hr build"
DescTenHr == <<"1", "0", " ", "h", "r", " ", "b", "u", "i", "l", "d">>

\* "30 min at 3 hr rate"
DescMinThenHr == <<"3", "0", " ", "m", "i", "n", " ", "a", "t", " ", "3", " ", "h", "r", " ", "r", "a", "t", "e">>

\* "0 min look"
DescZeroMin == <<"0", " ", "m", "i", "n", " ", "l", "o", "o", "k">>

NoText == <<>>

Descriptions ==
    {NoText, DescOneMinTouchUp,
     DescOneHourDetail,
     DescTinyTouchUp,
     DescMowLawn,
     DescFifteenMin,
     DescZeroHr,
     DescTwoHours,
     DescHalfHrs,
     DescTwelveMinutes,
     DescOneHrRush,
     DescHourly,
     DescTenHr,
     DescMinThenHr,
     DescZeroMin}

\* "abc"
PriceAbc == <<"a", "b", "c">>

\* "0"
PriceZero == <<"0">>

\* "-5"
PriceNegative == <<"-", "5">>

\* "1"
PriceOne == <<"1">>

\* "2"
PriceTwo == <<"2">>

\* "399"
Price399 == <<"3", "9", "9">>

\* "400"
Price400 == <<"4", "0", "0">>

\* " 500 "
Price500 == <<" ", "5", "0", "0", " ">>

\* "1000"
Price1000 == <<"1", "0", "0", "0">>

\* "1999"
Price1999 == <<"1", "9", "9", "9">>

\* "2000"
Price2000 == <<"2", "0", "0", "0">>

\* "5000"
Price5000 == <<"5", "0", "0", "0">>

\* "30000"
Price30000 == <<"3", "0", "0", "0", "0">>

RawPrices ==
    {NoText, PriceAbc,
     PriceZero,
     PriceNegative,
     PriceOne,
     PriceTwo,
     Price399,
     Price400,
     Price500,
     Price1000,
     Price1999,
     Price2000,
     Price5000,
     Price30000}

\* scopeType as sent; "" is an absent or empty field.
RawScopes == {"", "snapshot", "walkaround", "full"}

(***************************************************************************)
(* SpecBand: buildSmartBand applied to every input of the sets above.      *)
(***************************************************************************)

NoJob == [called |-> FALSE]

NoRun == [called |-> FALSE]

NoRequest == [pc |-> "idle"]

NothingSent == [status |-> 0]

\* The router takes no part in a run of the pure functions.
RouterOff ==
    /\ openai = FALSE
    /\ jobsFile = <<>>
    /\ req = <<>>
    /\ uploads = 0
    /\ now = 0
    /\ sent = NothingSent

Idle == [numericPrice |-> 0]

InitBand ==
    /\ bandIn \in [priceRaw : RawPrices, description : Descriptions, scopeType : RawScopes]
    /\ baseJob = NoJob
    /\ engineIn = Idle
    /\ run = NoRun
    /\ prevRun = NoRun
    /\ RouterOff

\* let baseJob = buildSmartBand({ priceRaw: price, description, scopeType })
CallBuildSmartBand ==
    /\ baseJob = NoJob
    /\ baseJob' = buildSmartBand(bandIn.priceRaw, bandIn.description, bandIn.scopeType)
    /\ UNCHANGED <<bandIn, engineIn, run, prevRun>>
    /\ UNCHANGED routerVars

NextBand == CallBuildSmartBand

SpecBand == InitBand /\ [][NextBand]_vars

(***************************************************************************)
(* routes/jobs.js: the upload pipeline after the OpenAI call               *)
(***************************************************************************)

NoteFairBand == "Based on your description, this sits in a fair band for your effort. Lead with outcome and reliability, not discounts."

NoteTopEnd == "You're already sitting at the top end for this kind of job. No upsell suggested - just make sure your delivery matches the ticket."

NoteRoomToMove == "You're running this lean for the effort you described. You've got real room to bring this up with a clear scope and value story."

\* What the OpenAI step leaves when the client is not configured, the call
\* rejects or the content is not JSON: aiLow, aiHigh, upsellPotential and
\* notes stay undefined (falsy, like NaN and "").
NoCompletion == [ok |-> FALSE, aiLow |-> NaN, aiHigh |-> NaN, upsellPotential |-> NaN, notes |-> ""]

\* 1) the locals after the OpenAI step: Number() of each field of the parsed
\* reply, the trimmed notes when they are a string.
AiBand(completion) ==
    IF completion.ok
    THEN [aiLow |-> completion.aiLow, aiHigh |-> completion.aiHigh,
          upsellPotential |-> completion.upsellPotential, notes |-> completion.notes]
    ELSE [aiLow |-> NaN, aiHigh |-> NaN, upsellPotential |-> NaN, notes |-> ""]

\* !aiLow || !aiHigh || aiHigh <= aiLow
NonsenseBand(ai) == Falsy(ai.aiLow) \/ Falsy(ai.aiHigh) \/ ai.aiHigh.v <= ai.aiLow.v

\* !upsellPotential || upsellPotential < 0 || upsellPotential > 100
NonsenseUpsell(ai) ==
    Falsy(ai.upsellPotential) \/ ai.upsellPotential.v < 0 \/ ai.upsellPotential.v > 100

\* Math.round((headroom / numericPrice) * 100) with headroom = max(0, aiHigh - price)
HeadroomPct(aiHigh, numericPrice) == Round(Max(0, aiHigh - numericPrice) * 100, numericPrice)

\* A variant of the fallback that leaves empty notes empty; the note of a
\* failed service call (C11) tells the two apart.
FallbackNoNote(ai, numericPrice) ==
    LET spread == Max(25, Round(numericPrice * 12, 100))
        aiLow  == IF NonsenseBand(ai) THEN Max(1, numericPrice - spread) ELSE ai.aiLow.v
        aiHigh == IF NonsenseBand(ai) THEN numericPrice + spread ELSE ai.aiHigh.v
        pct    == HeadroomPct(aiHigh, numericPrice)
    IN  [aiLow |-> aiLow,
         aiHigh |-> aiHigh,
         upsellPotential |->
             IF NonsenseUpsell(ai)
             THEN Max(5, Min(40, IF pct = 0 THEN 15 ELSE pct))
             ELSE ai.upsellPotential.v,
         notes |-> ai.notes]

\* 2) Fallback if AI fails or nonsense band
Fallback(ai, numericPrice) ==
    LET spread == Max(25, Round(numericPrice * 12, 100))
        aiLow  == IF NonsenseBand(ai) THEN Max(1, numericPrice - spread) ELSE ai.aiLow.v
        aiHigh == IF NonsenseBand(ai) THEN numericPrice + spread ELSE ai.aiHigh.v
        pct    == HeadroomPct(aiHigh, numericPrice)
    IN  [aiLow |-> aiLow,
         aiHigh |-> aiHigh,
         upsellPotential |->
             IF NonsenseUpsell(ai)
             THEN Max(5, Min(40, IF pct = 0 THEN 15 ELSE pct))
             ELSE ai.upsellPotential.v,
         notes |-> IF ai.notes = "" THEN NoteFairBand ELSE ai.notes]

\* The relative width of a stored job, or null: the map of the history tuning.
NoWidth == [known |-> FALSE, n |-> 0, d |-> 1]

RelativeWidth(j) ==
    IF j.price = 0 \/ j.aiLow = 0 \/ j.aiHigh = 0 THEN NoWidth
    ELSE IF j.aiHigh - j.aiLow <= 0 THEN NoWidth
    ELSE [known |-> TRUE, n |-> j.aiHigh - j.aiLow, d |-> j.price]

\* .filter((v) => v && v > 0 && v < 1.5); the width n is positive, so the
\* sign of v is the sign of the price d.
KeepWidth(v) == v.known /\ v.d > 0 /\ 2 * v.n < 3 * v.d

\* a / b < c / d for positive denominators
Less(x, y) == x.n * y.d < y.n * x.d

RECURSIVE Similar(_, _)
\* Array.prototype.filter on the mapped widths, order kept.
Similar(jobs, scope) ==
    IF jobs = <<>> THEN <<>>
    ELSE LET rest == Similar(Tail(jobs), scope)
         IN  IF Head(jobs).scopeType = scope THEN <<Head(jobs)>> \o rest ELSE rest

RECURSIVE Spreads(_)
Spreads(similar) ==
    IF similar = <<>> THEN <<>>
    ELSE LET v == RelativeWidth(Head(similar))
         IN  IF KeepWidth(v) THEN <<[n |-> v.n, d |-> v.d]>> \o Spreads(Tail(similar))
             ELSE Spreads(Tail(similar))

RECURSIVE Insert(_, _)
Insert(v, sorted) ==
    IF sorted = <<>> THEN <<v>>
    ELSE IF Less(v, Head(sorted)) THEN <<v>> \o sorted
    ELSE <<Head(sorted)>> \o Insert(v, Tail(sorted))

\* A variant of the sort that leaves the widths in file order; the median of
\* the history tuning (C6) tells the two apart.
Unsorted(spreads) == spreads

RECURSIVE Sort(_)
\* spreads.slice().sort((a, b) => a - b)
Sort(spreads) ==
    IF spreads = <<>> THEN <<>> ELSE Insert(Head(spreads), Sort(Tail(spreads)))

\* sorted.length % 2 ? sorted[mid] : (sorted[mid - 1] + sorted[mid]) / 2,
\* mid = Math.floor(sorted.length / 2), on 1-based positions here.
MedianSpread(sorted) ==
    LET mid == Len(sorted) \div 2
    IN  IF Len(sorted) % 2 = 1 THEN sorted[mid + 1]
        ELSE [n |-> sorted[mid].n * sorted[mid + 1].d + sorted[mid + 1].n * sorted[mid].d,
              d |-> 2 * sorted[mid].d * sorted[mid + 1].d]

\* Math.max(0.15, Math.min(0.45, medianSpread))
ClampWidth(m) ==
    IF 20 * m.n < 3 * m.d THEN [n |-> 3, d |-> 20]
    ELSE IF 20 * m.n > 9 * m.d THEN [n |-> 9, d |-> 20]
    ELSE m

\* similar.length >= 5 and spreads.length >= 3
EnoughHistory(similar, spreads) == Len(similar) >= 5 /\ Len(spreads) >= 3

\* 3) History-based tuning
HistoryTune(band, numericPrice, safeScope, jobsHistory) ==
    LET similar == Similar(jobsHistory, safeScope)
        spreads == Spreads(similar)
    IN  IF ~EnoughHistory(similar, spreads) THEN band
        ELSE
        LET width     == ClampWidth(MedianSpread(Sort(spreads)))
            tunedLow  == Round(numericPrice * (2 * width.d - width.n), 2 * width.d)
            tunedHigh == Round(numericPrice * (2 * width.d + width.n), 2 * width.d)
        IN  IF tunedLow > 0 /\ tunedHigh > tunedLow
            THEN [band EXCEPT !.aiLow = tunedLow, !.aiHigh = tunedHigh]
            ELSE band

\* A variant of the upper test with a strict comparison; the boundary case of
\* the shield (C7) tells the two apart.
WayAboveBandStrict(band, numericPrice) ==
    \/ band.aiHigh = 0
    \/ band.aiHigh > 0 /\ 100 * numericPrice > 135 * band.aiHigh

\* highRatio >= 1.35 with highRatio = numericPrice / aiHigh (a division by
\* zero is Infinity, a negative band gives a negative ratio)
WayAboveBand(band, numericPrice) ==
    \/ band.aiHigh = 0
    \/ band.aiHigh > 0 /\ 100 * numericPrice >= 135 * band.aiHigh

\* lowRatio <= 0.65 with lowRatio = numericPrice / aiLow
ClearlyUnderBand(band, numericPrice) ==
    \/ band.aiLow < 0
    \/ band.aiLow > 0 /\ 100 * numericPrice <= 65 * band.aiLow

\* 4) Stress-test shield
StressShield(band, numericPrice) ==
    LET pct == HeadroomPct(band.aiHigh, numericPrice)
    IN  IF WayAboveBand(band, numericPrice)
        THEN [aiLow |-> Round(numericPrice * 9, 10),
              aiHigh |-> Round(numericPrice * 105, 100),
              upsellPotential |-> 0,
              notes |-> NoteTopEnd]
        ELSE IF ClearlyUnderBand(band, numericPrice)
        THEN [band EXCEPT !.upsellPotential = Max(25, Min(60, IF pct = 0 THEN 30 ELSE pct)),
                          !.notes = NoteRoomToMove]
        ELSE band

\* Steps 2 to 4 with the locals each leaves, and the job entry of step 5.
Pipeline(numericPrice, safeScope, completion, jobsHistory, id) ==
    LET provisional == Fallback(AiBand(completion), numericPrice)
        tuned       == HistoryTune(provisional, numericPrice, safeScope, jobsHistory)
        final       == StressShield(tuned, numericPrice)
    IN  [provisional |-> provisional,
         tuned |-> tuned,
         jobEntry |-> [id |-> id,
                       price |-> numericPrice,
                       scopeType |-> safeScope,
                       aiLow |-> final.aiLow,
                       aiHigh |-> final.aiHigh,
                       upsellPotential |-> final.upsellPotential,
                       notes |-> final.notes]]

(***************************************************************************)
(* SpecEngine: the pipeline of routes/jobs.js run on one submission and    *)
(* one loaded history, once per reply of the text-generation service.      *)
(***************************************************************************)

\* A parsed reply whose four fields are present.
Reply(aiLow, aiHigh, upsellPotential, notes) ==
    [ok |-> TRUE, aiLow |-> aiLow, aiHigh |-> aiHigh,
     upsellPotential |-> upsellPotential, notes |-> notes]

\* "{}": the content was empty, or held none of the fields.
EmptyReply == Reply(NaN, NaN, NaN, "")

BandReply(aiLow, aiHigh) == Reply(Num(aiLow), Num(aiHigh), NaN, "")

NoteFromAI == "Solid price for the scope."

Completions ==
    {NoCompletion, EmptyReply,
     BandReply(10, 20), BandReply(20, 30), BandReply(85, 115), BandReply(154, 156),
     BandReply(850, 1150), BandReply(0 - 5, 12), BandReply(120, 90), BandReply(0, 50),
     Reply(Num(85), Num(115), Num(20), NoteFromAI),
     Reply(Num(85), Num(115), Num(80), NoteFromAI),
     Reply(Num(85), Num(115), Num(150), ""),
     Reply(NaN, Num(115), Num(0 - 3), NoteFromAI)}

\* An earlier upload: what it submitted and what the service replied.
Past(numericPrice, safeScope, aiLow, aiHigh) ==
    [numericPrice |-> numericPrice, safeScope |-> safeScope,
     completion |-> BandReply(aiLow, aiHigh)]

RECURSIVE Replay(_)
\* The history a sequence of successful uploads leaves in jobs.json, each
\* run on the history its predecessors left.
Replay(past) ==
    IF past = <<>> THEN <<>>
    ELSE LET before == Replay(SubSeq(past, 1, Len(past) - 1))
             u      == past[Len(past)]
         IN  Append(before,
                    Pipeline(u.numericPrice, u.safeScope, u.completion, before,
                             Len(past)).jobEntry)

\* Five snapshot jobs of relative width 0.30.
PastMedian30 == [i \in 1..5 |-> Past(1000, "snapshot", 850, 1150)]

\* Five snapshot jobs of widths 0.20, 0.30, 0.40, 0.50 and 1.60: four usable.
PastEven ==
    <<Past(100, "snapshot", 90, 110), Past(100, "snapshot", 85, 115),
      Past(100, "snapshot", 80, 120), Past(100, "snapshot", 75, 125),
      Past(100, "snapshot", 20, 180)>>

\* Five snapshot jobs of widths 1.00, 0.20, 1.40, 0.20 and 0.30, in that order.
PastSkewed ==
    <<Past(100, "snapshot", 50, 150), Past(100, "snapshot", 90, 110),
      Past(100, "snapshot", 30, 170), Past(100, "snapshot", 90, 110),
      Past(100, "snapshot", 85, 115)>>

\* Five snapshot jobs, two of them with a usable width.
PastTwoUsable ==
    <<Past(100, "snapshot", 85, 115), Past(100, "snapshot", 20, 180),
      Past(100, "snapshot", 10, 200), Past(100, "snapshot", 80, 120),
      Past(100, "snapshot", 30, 190)>>

\* Five walkaround jobs of width 0.04 and two snapshot jobs.
PastNarrow ==
    <<Past(1000, "walkaround", 980, 1020), Past(1000, "walkaround", 980, 1020),
      Past(100, "snapshot", 85, 115), Past(1000, "walkaround", 980, 1020),
      Past(1000, "walkaround", 990, 1030), Past(100, "snapshot", 85, 115),
      Past(1000, "walkaround", 970, 1010)>>

\* Five snapshot jobs of widths around 1.
PastWide ==
    <<Past(100, "snapshot", 50, 150), Past(100, "snapshot", 40, 150),
      Past(100, "snapshot", 50, 140), Past(100, "snapshot", 85, 115),
      Past(100, "snapshot", 30, 160)>>

\* Four snapshot jobs: too few.
PastFour == [i \in 1..4 |-> Past(1000, "snapshot", 850, 1150)]

\* Five snapshot jobs around a band whose low end is negative.
PastNegative ==
    <<Past(10, "snapshot", 0 - 5, 8), Past(10, "snapshot", 0 - 5, 8),
      Past(10, "snapshot", 0 - 5, 8), Past(10, "snapshot", 9, 12),
      Past(10, "snapshot", 9, 12)>>

Histories ==
    {Replay(u) : u \in {<<>>, PastMedian30, PastEven, PastSkewed, PastTwoUsable,
                        PastNarrow, PastWide, PastFour, PastNegative}}

EnginePrices == {1, 13, 27, 100, 1000}

SafeScopes == {"snapshot", "walkaround"}

InitEngine ==
    /\ engineIn \in [numericPrice : EnginePrices, safeScope : SafeScopes,
                     jobsHistory : Histories]
    /\ run = NoRun
    /\ prevRun = NoRun
    /\ bandIn = Idle
    /\ baseJob = NoJob
    /\ RouterOff

\* One run of steps 1 to 5 on engineIn, the service replying `completion`.
RunPipeline(completion) ==
    /\ prevRun' = run
    /\ run' = [called |-> TRUE, completion |-> completion]
                @@ Pipeline(engineIn.numericPrice, engineIn.safeScope, completion,
                            engineIn.jobsHistory, Len(engineIn.jobsHistory) + 1)
    /\ UNCHANGED <<engineIn, bandIn, baseJob>>
    /\ UNCHANGED routerVars

NextEngine == \E completion \in Completions : RunPipeline(completion)

SpecEngine == InitEngine /\ [][NextEngine]_vars

(***************************************************************************)
(* SpecRouter: routes/jobs.js as mounted at /api/jobs.  An upload runs to  *)
(* its only suspension point, the await of the OpenAI call, and from the   *)
(* reply to the response without another; with no client it runs through.  *)
(* A job entry keeps the fields the pipeline reads or writes (file,         *)
(* operatorId, description and createdAt are copied and never read).       *)
(***************************************************************************)

\* The connections that may carry an upload at once.
MaxReqs == 2

\* The uploads one run of the server receives.
MaxUploads == 2

Conns == 1..MaxReqs

\* "10"
Price10 == <<"1", "0">>

\* "100"
Price100 == <<"1", "0", "0">>

Bodies ==
    [price : {NoText, PriceAbc, PriceZero, Price10, Price100},
     description : {NoText, DescMowLawn},
     scopeType : {"", "walkaround"}]

RouterCompletions ==
    {NoCompletion, EmptyReply, BandReply(0 - 5, 8),
     Reply(Num(85), Num(115), Num(80), NoteFromAI)}

ErrMedia == "Media file is required."

ErrRequired == "Price and description are required."

ErrPositive == "Price must be a positive number."

\* The 400 the validation answers with, or "" when the body passes.
Rejection(body, hasFile) ==
    LET numericPrice == Number(body.price)
    IN  IF ~hasFile THEN ErrMedia
        ELSE IF body.price = NoText \/ body.description = NoText THEN ErrRequired
        ELSE IF Falsy(numericPrice) \/ numericPrice.v <= 0 THEN ErrPositive
        ELSE ""

\* scopeType === "walkaround" ? "walkaround" : "snapshot"
SafeScope(scopeType) == IF scopeType = "walkaround" THEN "walkaround" ELSE "snapshot"

\* loadJobs(): the parsed file, or [] when it cannot be read or parsed.
loadJobs(readOk) == IF readOk THEN jobsFile ELSE <<>>

\* saveJobs(jobs): the file rewritten, or left as it was when the write throws.
saveJobs(jobs, writeOk) == IF writeOk THEN jobs ELSE jobsFile

InitRouter ==
    /\ openai \in BOOLEAN
    /\ jobsFile \in {<<>>, Replay(PastMedian30)}
    /\ req = [c \in Conns |-> NoRequest]
    /\ uploads = 0
    /\ now = Len(jobsFile) + 1
    /\ sent = NothingSent
    /\ bandIn = Idle
    /\ baseJob = NoJob
    /\ engineIn = Idle
    /\ run = NoRun
    /\ prevRun = NoRun

\* Steps 2 to 5 of the handler of connection c, from the reply (or from the
\* start when there is no client) to res.json(jobEntry).
Finish(c, body, completion, readOk, writeOk) ==
    LET numericPrice == Number(body.price).v
        safeScope    == SafeScope(body.scopeType)
        jobsHistory  == loadJobs(readOk)
        locals       == Pipeline(numericPrice, safeScope, completion, jobsHistory, now)
    IN  /\ jobsFile' = saveJobs(Append(jobsHistory, locals.jobEntry), writeOk)
        /\ sent' = [status |-> 200, conn |-> c, body |-> body, hasFile |-> TRUE,
                    numericPrice |-> numericPrice, safeScope |-> safeScope,
                    completion |-> completion, jobsHistory |-> jobsHistory,
                    tuned |-> locals.tuned, json |-> locals.jobEntry]
        /\ now' = now + 1
        /\ req' = [req EXCEPT ![c] = NoRequest]

\* POST /api/jobs/upload arrives on connection c.
Upload(c, body, hasFile) ==
    /\ req[c].pc = "idle"
    /\ uploads < MaxUploads
    /\ uploads' = uploads + 1
    /\ \/ /\ Rejection(body, hasFile) # ""
          /\ sent' = [status |-> 400, conn |-> c, body |-> body, hasFile |-> hasFile,
                      json |-> [error |-> Rejection(body, hasFile)]]
          /\ UNCHANGED <<jobsFile, req, now>>
       \/ /\ Rejection(body, hasFile) = ""
          /\ openai
          /\ req' = [req EXCEPT ![c] = [pc |-> "await", body |-> body]]
          /\ UNCHANGED <<jobsFile, now, sent>>
       \/ /\ Rejection(body, hasFile) = ""
          /\ ~openai
          /\ \E readOk \in BOOLEAN, writeOk \in BOOLEAN :
                Finish(c, body, NoCompletion, readOk, writeOk)
    /\ UNCHANGED openai
    /\ UNCHANGED engineVars

\* The OpenAI call of connection c settles: a parsed reply, or a rejection
\* or unparsable content (NoCompletion).
Resume(c, completion, readOk, writeOk) ==
    /\ req[c].pc = "await"
    /\ Finish(c, req[c].body, completion, readOk, writeOk)
    /\ UNCHANGED <<openai, uploads>>
    /\ UNCHANGED engineVars

NextRouter ==
    \/ \E c \in Conns, body \in Bodies, hasFile \in BOOLEAN : Upload(c, body, hasFile)
    \/ \E c \in Conns, completion \in RouterCompletions,
          readOk \in BOOLEAN, writeOk \in BOOLEAN :
          Resume(c, completion, readOk, writeOk)

SpecRouter == InitRouter /\ [][NextRouter]_vars

(***************************************************************************)
(* SpecRouterLive: the same route with the settling of the OpenAI call and *)
(* the continuation of the handler as two steps.  The promise of           *)
(* openai.chat.completions.create settles when the service replies or the  *)
(* call rejects; the code passes no timeout and no abort signal, so        *)
(* nothing else settles it.  Once it has settled, the event loop runs the  *)
(* continuation: that step alone is fair.                                  *)
(***************************************************************************)

\* The promise awaited by connection c settles with a reply or a rejection.
Settle(c, completion) ==
    /\ req[c].pc = "await"
    /\ req' = [req EXCEPT ![c] = [pc |-> "settled", body |-> req[c].body,
                                  completion |-> completion]]
    /\ UNCHANGED <<openai, jobsFile, uploads, now, sent>>
    /\ UNCHANGED engineVars

\* The handler of connection c continues after its await, to res.json.
Continue(c, readOk, writeOk) ==
    /\ req[c].pc = "settled"
    /\ Finish(c, req[c].body, req[c].completion, readOk, writeOk)
    /\ UNCHANGED <<openai, uploads>>
    /\ UNCHANGED engineVars

Continuation(c) == \E readOk \in BOOLEAN, writeOk \in BOOLEAN : Continue(c, readOk, writeOk)

NextRouterLive ==
    \/ \E c \in Conns, body \in Bodies, hasFile \in BOOLEAN : Upload(c, body, hasFile)
    \/ \E c \in Conns, completion \in RouterCompletions : Settle(c, completion)
    \/ \E c \in Conns : Continuation(c)

SpecRouterLive ==
    /\ InitRouter
    /\ [][NextRouterLive]_vars
    /\ \A c \in Conns : WF_vars(Continuation(c))

(***************************************************************************)
(* Properties of buildSmartBand, read on the states of SpecBand.  The      *)
(* triggers are restated here from the description and the price, so that  *)
(* a property does not borrow the rule it constrains.                      *)
(***************************************************************************)

\* The duration getApproxHours parses from the trimmed description.
ParsedHours(description) == getApproxHours(Trim(description))

\* A tiny-job marker, or a parsed positive duration of at most a quarter hour.
TinySignal(description) ==
    \/ looksLikeTinyJob(Trim(description))
    \/ /\ ParsedHours(description).known
       /\ ParsedHours(description).n > 0
       /\ 4 * ParsedHours(description).n <= ParsedHours(description).d

\* price / approxHours > 1000 for a parsed duration; a division by a parsed
\* zero is Infinity.
RateOver1000(price, description) ==
    /\ ParsedHours(description).known
    /\ price * ParsedHours(description).d > 1000 * ParsedHours(description).n

CeilingBand(job) ==
    /\ job.aiLow = Round(job.price * 8, 10)
    /\ job.aiHigh = job.price
    /\ job.upsellPotential = 0

HourlyBand(job) ==
    /\ job.aiLow = Round(job.price * 6, 10)
    /\ job.aiHigh = Max(Round(job.price * 9, 10), job.aiLow)
    /\ job.upsellPotential = 0

\* C4 as stated: whenever the description carries a tiny-job marker (or
\* approxHours <= 0.25) and price >= 400, buildSmartBand returns
\* aiLow = round(price * 0.8), aiHigh = price and upsellPotential = 0.
\* Refuted by price 500 with "1 min paint touch up": one minute is 1/60 hour,
\* 30000 an hour, and the hourly rule that runs next returns 300, 450, 0.
C4_TinyCeilingAlways ==
    (/\ baseJob # NoJob
     /\ baseJob.price >= 400
     /\ \/ looksLikeTinyJob(Trim(bandIn.description))
        \/ /\ ParsedHours(bandIn.description).known
           /\ 4 * ParsedHours(bandIn.description).n <= ParsedHours(bandIn.description).d)
    => CeilingBand(baseJob)

\* C4 as amended: whenever the description carries a tiny-job marker (or a
\* parsed positive duration of at most 0.25 hours), price >= 400 and the
\* implied hourly rate is not above 1000, buildSmartBand returns
\* aiLow = round(price * 0.8), aiHigh = price and upsellPotential = 0; price
\* 500 with "tiny paint touch up" gives 400, 500, 0.
C4_TinyCeilingUnlessHourly ==
    /\ (/\ baseJob # NoJob
        /\ baseJob.price >= 400
        /\ TinySignal(bandIn.description)
        /\ ~RateOver1000(baseJob.price, bandIn.description))
       => CeilingBand(baseJob)
    /\ (/\ baseJob # NoJob
        /\ bandIn.priceRaw = Price500
        /\ bandIn.description = DescTinyTouchUp)
       => (baseJob.aiLow = 400 /\ baseJob.aiHigh = 500 /\ baseJob.upsellPotential = 0)

\* The ceiling rule has acted on price 500 with "  Tiny paint touch up ".
C4_Witness ==
    /\ baseJob # NoJob
    /\ bandIn.priceRaw = Price500
    /\ bandIn.description = DescTinyTouchUp
    /\ baseJob.price = 500
    /\ baseJob.aiLow = 400
    /\ baseJob.aiHigh = 500
    /\ baseJob.upsellPotential = 0
    /\ baseJob.notes = NoteCeiling

PeersOf(jobs, scope) == {i \in 1..Len(jobs) : jobs[i].scopeType = scope}

\* (aiHigh - aiLow) / price is > 0 and < 1.5 (a stored price is positive).
UsableWidth(j) ==
    /\ j.price > 0
    /\ j.aiHigh - j.aiLow > 0
    /\ 2 * (j.aiHigh - j.aiLow) < 3 * j.price

\* The width of record a is at most the width of record b.
WidthAtMost(a, b) == (a.aiHigh - a.aiLow) * b.price <= (b.aiHigh - b.aiLow) * a.price

RECURSIVE GCD(_, _)
GCD(a, b) == IF b = 0 THEN a ELSE GCD(b, a % b)

\* The fraction n / d in lowest terms.
Lowest(n, d) == [n |-> n \div GCD(n, d), d |-> d \div GCD(n, d)]

\* A position of S that holds the k-th smallest width of S: k widths are at
\* most it, and all but k - 1 are at least it.
KthWidth(jobs, S, k) ==
    CHOOSE i \in S :
        /\ Cardinality({m \in S : WidthAtMost(jobs[m], jobs[i])}) >= k
        /\ Cardinality({m \in S : WidthAtMost(jobs[i], jobs[m])}) >= Cardinality(S) - k + 1

\* The median of the widths at the positions S, as the mean of the lower and
\* the upper middle value (the same value when the count is odd).
MedianWidth(jobs, S) ==
    LET lo == jobs[KthWidth(jobs, S, (Cardinality(S) + 1) \div 2)]
        hi == jobs[KthWidth(jobs, S, Cardinality(S) \div 2 + 1)]
    IN  Lowest((lo.aiHigh - lo.aiLow) * hi.price + (hi.aiHigh - hi.aiLow) * lo.price,
               2 * lo.price * hi.price)

\* m clamped to [0.15, 0.45]
Clamped(m) ==
    IF 100 * m.n < 15 * m.d THEN [n |-> 15, d |-> 100]
    ELSE IF 100 * m.n > 45 * m.d THEN [n |-> 45, d |-> 100]
    ELSE m

\* round(price * (1 - w / 2)) and round(price * (1 + w / 2))
RecentredLow(price, w) == Round(price * (2 * w.d - w.n), 2 * w.d)

RecentredHigh(price, w) == Round(price * (2 * w.d + w.n), 2 * w.d)

\* The condition under which C6 has the band re-centred.
Recentres(price, scope, jobs) ==
    LET peers  == PeersOf(jobs, scope)
        usable == {i \in peers : UsableWidth(jobs[i])}
    IN  /\ Cardinality(peers) >= 5
        /\ Cardinality(usable) >= 3
        /\ RecentredLow(price, Clamped(MedianWidth(jobs, usable))) > 0
        /\ RecentredHigh(price, Clamped(MedianWidth(jobs, usable)))
             > RecentredLow(price, Clamped(MedianWidth(jobs, usable)))

\* C6: the band is re-centred on the price exactly when the history has at
\* least 5 records of the submission's scope, at least 3 of them with a
\* relative width > 0 and < 1.5, and the re-centred band has low > 0 and
\* high > low; then aiLow = round(price * (1 - w/2)) and
\* aiHigh = round(price * (1 + w/2)) for w the median of the surviving widths
\* clamped to [0.15, 0.45]; otherwise the provisional band is kept; the tuner
\* never changes upsellPotential or notes.
C6_HistoryTuning ==
    run.called =>
      LET price  == engineIn.numericPrice
          jobs   == engineIn.jobsHistory
          usable == {i \in PeersOf(jobs, engineIn.safeScope) : UsableWidth(jobs[i])}
      IN  /\ Recentres(price, engineIn.safeScope, jobs) =>
                /\ run.tuned.aiLow = RecentredLow(price, Clamped(MedianWidth(jobs, usable)))
                /\ run.tuned.aiHigh = RecentredHigh(price, Clamped(MedianWidth(jobs, usable)))
          /\ ~Recentres(price, engineIn.safeScope, jobs) =>
                /\ run.tuned.aiLow = run.provisional.aiLow
                /\ run.tuned.aiHigh = run.provisional.aiHigh
          /\ run.tuned.upsellPotential = run.provisional.upsellPotential
          /\ run.tuned.notes = run.provisional.notes
          /\ (/\ price = 1000
              /\ engineIn.safeScope = "snapshot"
              /\ jobs = Replay(PastMedian30))
             => (run.tuned.aiLow = 850 /\ run.tuned.aiHigh = 1150)

\* Price 1000 on five snapshot records of width 0.30: the provisional band of
\* the fallback, 880..1120, has been re-centred to 850..1150.
C6_Witness ==
    /\ run.called
    /\ engineIn.numericPrice = 1000
    /\ engineIn.safeScope = "snapshot"
    /\ engineIn.jobsHistory = Replay(PastMedian30)
    /\ run.completion = NoCompletion
    /\ run.provisional.aiLow = 880
    /\ run.provisional.aiHigh = 1120
    /\ run.tuned.aiLow = 850
    /\ run.tuned.aiHigh = 1150

\* C7: the shield works on the band that synthesis and history tuning leave,
\* and whenever price / aiHigh >= 1.35 for that band the final record has
\* aiLow = round(price * 0.9), aiHigh = round(price * 1.05) and
\* upsellPotential = 0.
C7_ShieldUpper ==
    (/\ run.called
     /\ run.tuned.aiHigh > 0
     /\ 100 * engineIn.numericPrice >= 135 * run.tuned.aiHigh)
    => /\ run.jobEntry.aiLow = Round(engineIn.numericPrice * 9, 10)
       /\ run.jobEntry.aiHigh = Round(engineIn.numericPrice * 105, 100)
       /\ run.jobEntry.upsellPotential = 0

\* Price 27 on a band of 10..20, the ratio exactly 1.35: the final band is
\* 24..28 with no upsell.
C7_Witness ==
    /\ run.called
    /\ engineIn.numericPrice = 27
    /\ run.tuned.aiLow = 10
    /\ run.tuned.aiHigh = 20
    /\ run.jobEntry.aiLow = 24
    /\ run.jobEntry.aiHigh = 28
    /\ run.jobEntry.upsellPotential = 0
    /\ run.jobEntry.notes = NoteTopEnd

\* C8: whenever the upper branch did not fire and price / aiLow <= 0.65, the
\* final upsellPotential is clamp(round(max(0, aiHigh - price) / price * 100),
\* 25, 60), the band is unchanged and the note is the 'room to move' note.
C8_ShieldLower ==
    (/\ run.called
     /\ ~(run.tuned.aiHigh > 0 /\ 100 * engineIn.numericPrice >= 135 * run.tuned.aiHigh)
     /\ run.tuned.aiHigh # 0
     /\ \/ run.tuned.aiLow < 0
        \/ run.tuned.aiLow > 0 /\ 100 * engineIn.numericPrice <= 65 * run.tuned.aiLow)
    => /\ run.jobEntry.upsellPotential =
            Max(25, Min(60, Round(Max(0, run.tuned.aiHigh - engineIn.numericPrice) * 100,
                                  engineIn.numericPrice)))
       /\ run.jobEntry.aiLow = run.tuned.aiLow
       /\ run.jobEntry.aiHigh = run.tuned.aiHigh
       /\ run.jobEntry.notes = NoteRoomToMove

\* C10: two runs on the same price, scope and unchanged history give the same
\* aiLow, aiHigh and upsellPotential, and the same notes when neither run got
\* a reply of the service.
C10_Deterministic ==
    (run.called /\ prevRun.called)
    => /\ run.jobEntry.aiLow = prevRun.jobEntry.aiLow
       /\ run.jobEntry.aiHigh = prevRun.jobEntry.aiHigh
       /\ run.jobEntry.upsellPotential = prevRun.jobEntry.upsellPotential
       /\ (run.completion = NoCompletion /\ prevRun.completion = NoCompletion)
          => run.jobEntry.notes = prevRun.jobEntry.notes

(***************************************************************************)
(* Properties of the upload route of routes/jobs.js, read on the states of *)
(* SpecRouter: sent is the last response, jobsFile the stored history.     *)
(***************************************************************************)

\* C1: for every upload with a price > 0, whatever the history holds and
\* whatever the service replies, the record returned and the records stored
\* satisfy 0 < aiLow <= aiHigh.
C1_BandPositiveOrdered ==
    /\ sent.status = 200 =>
          (0 < sent.json.aiLow /\ sent.json.aiLow <= sent.json.aiHigh)
    /\ \A i \in 1..Len(jobsFile) :
          jobsFile[i].price > 0 =>
             (0 < jobsFile[i].aiLow /\ jobsFile[i].aiLow <= jobsFile[i].aiHigh)

\* C2: for every upload with a price > 0 the final upsellPotential is in
\* [0, 60], and it is above 40 only when the under-band branch of the shield
\* (price / aiLow <= 0.65) fired.
C2_UpsellCapped ==
    sent.status = 200 =>
       /\ 0 <= sent.json.upsellPotential
       /\ sent.json.upsellPotential <= 60
       /\ sent.json.upsellPotential > 40 =>
             /\ ~(sent.tuned.aiHigh > 0 /\ 100 * sent.numericPrice >= 135 * sent.tuned.aiHigh)
             /\ \/ sent.tuned.aiLow < 0
                \/ /\ sent.tuned.aiLow > 0
                   /\ 100 * sent.numericPrice <= 65 * sent.tuned.aiLow

\* The price of a body is missing, not a number, or <= 0.
InvalidPrice(body) ==
    \/ body.price = NoText
    \/ Number(body.price).nan
    \/ Number(body.price).v <= 0

\* C3: a submission (with its media file and description) whose price is
\* missing, non-numeric or <= 0 is answered without an error, by the
\* zero-band record: price, aiLow, aiHigh and upsellPotential 0 and a
\* non-empty note.
C3_ZeroBandNoError ==
    (/\ sent.status # 0
     /\ sent.hasFile
     /\ sent.body.description # NoText
     /\ InvalidPrice(sent.body))
    => /\ sent.status = 200
       /\ sent.json.price = 0
       /\ sent.json.aiLow = 0
       /\ sent.json.aiHigh = 0
       /\ sent.json.upsellPotential = 0
       /\ sent.json.notes # ""

\* C9: the reply of the service changes only the notes: price, aiLow, aiHigh
\* and upsellPotential of the record returned (and stored) are those the same
\* upload gets on the same loaded history without a reply.
C9_OnlyNotesFromService ==
    sent.status = 200 =>
       LET alone == Pipeline(sent.numericPrice, sent.safeScope, NoCompletion,
                             sent.jobsHistory, sent.json.id).jobEntry
       IN  /\ sent.json.price = alone.price
           /\ sent.json.aiLow = alone.aiLow
           /\ sent.json.aiHigh = alone.aiHigh
           /\ sent.json.upsellPotential = alone.upsellPotential

\* C11: when the service is not configured, throws, or returns empty text,
\* an upload that passed validation is answered with a success response, and
\* its notes are the non-empty note of the rule that fired: the shield's note
\* when a branch of the shield fired, else the default note of the fallback.
C11_FallbackNote ==
    /\ (sent.status # 0 /\ Rejection(sent.body, sent.hasFile) = "") => sent.status = 200
    /\ (sent.status = 200 /\ sent.completion \in {NoCompletion, EmptyReply}) =>
          /\ sent.json.notes # ""
          /\ sent.json.notes =
                IF sent.tuned.aiHigh > 0 /\ 100 * sent.numericPrice >= 135 * sent.tuned.aiHigh
                THEN NoteTopEnd
                ELSE IF \/ sent.tuned.aiLow < 0
                        \/ /\ sent.tuned.aiLow > 0
                           /\ 100 * sent.numericPrice <= 65 * sent.tuned.aiLow
                THEN NoteRoomToMove
                ELSE NoteFairBand

\* With a client configured, the call of an upload of price 100 threw (or
\* returned no JSON) and the upload was answered 200 with the default note.
C11_Witness ==
    /\ openai
    /\ sent.status = 200
    /\ sent.completion = NoCompletion
    /\ sent.numericPrice = 100
    /\ sent.json.aiLow = 75
    /\ sent.json.aiHigh = 125
    /\ sent.json.notes = NoteFairBand

\* C12: every upload eventually sends its response, even if the service
\* never replies: a request waiting at the OpenAI call does not wait forever.
C12_EventuallyResponds ==
    \A c \in Conns : (req[c].pc = "await") ~> (req[c].pc = "idle")

\* C13: the stored history is append-only: every step of the route leaves
\* the file as it was or adds exactly one record at its end, and an upload
\* that is answered 200 adds the record it returns, also when reading the
\* store failed during it.
C13_AppendOnly ==
    [][/\ jobsFile' # jobsFile =>
             /\ Len(jobsFile') = Len(jobsFile) + 1
             /\ SubSeq(jobsFile', 1, Len(jobsFile)) = jobsFile
       /\ (sent' # sent /\ sent'.status = 200) =>
             jobsFile' = Append(jobsFile, sent'.json)]_vars

\* C15: with several uploads in flight, each suspended at the OpenAI call and
\* resumed in any order, every upload that completed has exactly one record
\* in the stored history and none has been overwritten: the records are
\* those of the seed history and of the completed uploads, in order of
\* completion (now counts them).
C15_NoLostUpdate ==
    /\ Len(jobsFile) = now - 1
    /\ \A i \in 1..Len(jobsFile) : jobsFile[i].id = i

\* C14: for every price >= 2000 buildSmartBand returns upsellPotential = 0;
\* the large-ticket rule leaves aiLow and aiHigh as the earlier rules set
\* them (the hourly band, else the ceiling band, else the base band of
\* round(price * 0.75)..round(price * 1.25)), and its note replaces only the
\* base 'workable lane' note, never the hourly-rate or the tiny-job note.
C14_LargeTicket ==
    (baseJob # NoJob /\ baseJob.price >= 2000) =>
       /\ baseJob.upsellPotential = 0
       /\ IF /\ ParsedHours(bandIn.description).n > 0
             /\ RateOver1000(baseJob.price, bandIn.description)
          THEN HourlyBand(baseJob) /\ baseJob.notes = NoteHourly
          ELSE IF TinySignal(bandIn.description)
          THEN CeilingBand(baseJob) /\ baseJob.notes = NoteCeiling
          ELSE /\ baseJob.aiLow = Round(baseJob.price * 75, 100)
               /\ baseJob.aiHigh = Round(baseJob.price * 125, 100)
               /\ baseJob.notes = NoteLargeTicket

\* Price 2000 on "  Tiny paint touch up ": no duration, so the large-ticket
\* rule fired after the ceiling rule and left its band 1600..2000 and its note.
C14_Witness ==
    /\ baseJob # NoJob
    /\ bandIn.priceRaw = Price2000
    /\ bandIn.description = DescTinyTouchUp
    /\ ~ParsedHours(bandIn.description).known
    /\ baseJob.aiLow = 1600
    /\ baseJob.aiHigh = 2000
    /\ baseJob.upsellPotential = 0
    /\ baseJob.notes = NoteCeiling

====
